---- MODULE Spec2Model ----
(***************************************************************************)
(* Digital-Library data model: the Book aggregate (copy counters,          *)
(* availability flag, embedded borrow ledger) and the Annotation           *)
(* aggregate (likes, replies, soft delete), with the instance methods and  *)
(* statics of the two mongoose schemas.                                    *)
(*                                                                         *)
(* A document handle is an in-memory copy (book, ann); the stored record   *)
(* is dbBook, dbAnn.  this.save() writes the handle to the store.          *)
(* Time is a wall clock read by `new Date()` and by every `default:        *)
(* Date.now`; successive reads never go backwards but may differ.          *)
(*                                                                         *)
(* Not represented: the descriptive fields of both schemas (title, isbn,   *)
(* genre, position, color, ...), the createdAt/updatedAt stamps of the     *)
(* `timestamps` option, populate() and the sort order of query results.    *)
(* User ids are assumed present on every ledger record and like.           *)
(***************************************************************************)
EXTENDS Integers, Sequences, FiniteSets

(* ------------------------------ bounds --------------------------------- *)
NumUsers == 2
MaxCopies == 2
MaxLedger == 2
MaxTime == 1
TicksPerDay == 1
MaxReplies == 1

(* -------------------------- program constants --------------------------- *)
BorrowPeriodDays == 14
NoDate == -1

Users == 1..NumUsers
Availabilities == {"available", "borrowed", "reserved", "maintenance"}
BorrowStatuses == {"borrowed", "returned", "overdue"}
BookIds == {1, 2}
AnnotationTypes == {"highlight", "note", "bookmark", "comment"}

Clients == {"c1", "c2"}

VARIABLES book, dbBook, ann, dbAnn, softDeleted, client, now, last

vars == <<book, dbBook, ann, dbAnn, softDeleted, client, now, last>>
bookVars == <<book, dbBook>>
annVars == <<ann, dbAnn, softDeleted>>

(* ------------------------------ helpers -------------------------------- *)
HexDigits == <<"0", "1", "2", "3", "4", "5", "6", "7",
               "8", "9", "a", "b", "c", "d", "e", "f">>

\* ObjectId.prototype.toString / String.prototype.toString: the hex form.
ToString(id) == <<HexDigits[((id \div 16) % 16) + 1], HexDigits[(id % 16) + 1]>>

\* A clock read made when the previous read returned t.
ReadClock(t) == {x \in t..MaxTime : x <= t + 1}

\* Date.prototype.setDate(getDate() + n)
AddDays(t, n) == t + n * TicksPerDay

\* Array.prototype.findIndex / find: hit[k] is the callback's verdict on
\* element k; the first position that hits, 0 when none (-1 in JS).
FindIndex(hit) ==
  IF \E i \in DOMAIN hit : hit[i]
  THEN CHOOSE i \in DOMAIN hit : hit[i] /\ \A j \in 1..(i - 1) : ~hit[j]
  ELSE 0

(* ------------------------------- Book ---------------------------------- *)
\* Variant: the status alone is not looked at.
isAvailable_IgnoresStatus(b) == b.availableCopies > 0

\* Variant: the copy test is off by one.
isAvailable_AllowsZero(b) == b.availability = "available" /\ b.availableCopies >= 0

isAvailable(b) == b.availability = "available" /\ b.availableCopies > 0

\* The subdocument cast by borrowHistory.push: borrowDate defaults to
\* Date.now() at the push, returnDate is absent.
BorrowRecord(userId, dueDate, tPush) ==
  [user |-> userId, borrowDate |-> tPush, returnDate |-> NoDate,
   dueDate |-> dueDate, status |-> "borrowed"]

\* Variant: the counter is left alone when no status change is due.
BorrowMutate_NoDecrement(b, userId, tNew, tPush) ==
  LET dueDate == AddDays(tNew, BorrowPeriodDays)
  IN [b EXCEPT !.borrowHistory = Append(@, BorrowRecord(userId, dueDate, tPush))]

\* Body of borrowBook after the availability check, up to the save.
\* tNew is the value of `new Date()`, tPush the clock at the push.
BorrowMutate(b, userId, tNew, tPush) ==
  LET b1 == [b EXCEPT !.availableCopies = @ - 1]
      b2 == IF b1.availableCopies = 0
            THEN [b1 EXCEPT !.availability = "borrowed"]
            ELSE b1
      dueDate == AddDays(tNew, BorrowPeriodDays)
  IN [b2 EXCEPT !.borrowHistory = Append(@, BorrowRecord(userId, dueDate, tPush))]

\* Variant: the status of the record is not tested.
FindBorrowRecord_AnyStatus(b, userId) ==
  FindIndex([k \in 1..Len(b.borrowHistory) |->
               ToString(b.borrowHistory[k].user) = ToString(userId)])

\* borrowHistory.find(...) position of the first open record of the user.
FindBorrowRecord(b, userId) ==
  FindIndex([k \in 1..Len(b.borrowHistory) |->
               /\ ToString(b.borrowHistory[k].user) = ToString(userId)
               /\ b.borrowHistory[k].status = "borrowed"])

\* Variant: only a 'borrowed' book is flipped back to 'available'.
ReturnMutate_KeepsOverride(b, i, tNew) ==
  LET b1 == [b EXCEPT !.borrowHistory[i].returnDate = tNew,
                      !.borrowHistory[i].status = "returned"]
      b2 == [b1 EXCEPT !.availableCopies = @ + 1]
  IN IF b2.availableCopies > 0 /\ b2.availability = "borrowed"
     THEN [b2 EXCEPT !.availability = "available"]
     ELSE b2

\* Body of returnBook once the record at index i was found, up to the save.
ReturnMutate(b, i, tNew) ==
  LET b1 == [b EXCEPT !.borrowHistory[i].returnDate = tNew,
                      !.borrowHistory[i].status = "returned"]
      b2 == [b1 EXCEPT !.availableCopies = @ + 1]
  IN IF b2.availableCopies > 0
     THEN [b2 EXCEPT !.availability = "available"]
     ELSE b2

\* What the caller observes of the most recent call: the method, its
\* receiver and argument, whether it threw or its promise rejected, the
\* number of storage writes it issued and its return value.
NoOp == [op |-> "none", user |-> 0, threw |-> FALSE, saves |-> 0, result |-> <<>>]

Outcome(op, userId, threw, saves, result) ==
  [op |-> op, user |-> userId, threw |-> threw, saves |-> saves, result |-> result]

\* book.borrowBook(userId)
BorrowBook(userId) ==
  IF ~isAvailable(book)
  THEN /\ last' = Outcome("borrowBook", userId, TRUE, 0, <<>>)
       /\ UNCHANGED <<book, dbBook, now, annVars, client>>
  ELSE /\ Len(book.borrowHistory) < MaxLedger
       /\ \E tNew \in ReadClock(now) : \E tPush \in ReadClock(tNew) :
            /\ book' = BorrowMutate(book, userId, tNew, tPush)
            /\ dbBook' = book'
            /\ now' = tPush
       /\ last' = Outcome("borrowBook", userId, FALSE, 1, <<>>)
       /\ UNCHANGED <<annVars, client>>

\* book.returnBook(userId)
ReturnBook(userId) ==
  LET i == FindBorrowRecord(book, userId)
  IN IF i = 0
     THEN /\ last' = Outcome("returnBook", userId, TRUE, 0, <<>>)
          /\ UNCHANGED <<book, dbBook, now, annVars, client>>
     ELSE /\ \E tNew \in ReadClock(now) :
               /\ book' = ReturnMutate(book, i, tNew)
               /\ dbBook' = book'
               /\ now' = tNew
          /\ last' = Outcome("returnBook", userId, FALSE, 1, <<>>)
          /\ UNCHANGED <<annVars, client>>

(* ---------------------------- Annotation ------------------------------- *)
\* String.prototype.toLowerCase on one character (the regex 'i' option).
LowerChar(c) == CASE c = "A" -> "a" [] c = "B" -> "b" [] OTHER -> c

Lower(s) == [k \in 1..Len(s) |-> LowerChar(s[k])]

\* The schema's `trim: true` setter.
RECURSIVE Trim(_)
Trim(s) ==
  IF s = <<>> THEN s
  ELSE IF Head(s) = " " THEN Trim(Tail(s))
  ELSE IF s[Len(s)] = " " THEN Trim(SubSeq(s, 1, Len(s) - 1))
  ELSE s

\* { $regex: q, $options: 'i' } for a query q without metacharacters:
\* q occurs in s, letter case ignored.
RegexMatch(s, q) ==
  \E k \in 0..(Len(s) - Len(q)) : Lower(SubSeq(s, k + 1, k + Len(q))) = Lower(q)

\* Variant: splice(i) without a delete count drops the whole tail.
Splice_DropsTail(s, i) == SubSeq(s, 1, i - 1)

\* Array.prototype.splice(i, 1)
Splice(s, i) == SubSeq(s, 1, i - 1) \o SubSeq(s, i + 1, Len(s))

\* virtual likeCount
likeCount(a) == Len(a.likes)

\* virtual replyCount
replyCount(a) == Len(a.replies)

isLikedBy(a, userId) ==
  \E k \in 1..Len(a.likes) : ToString(a.likes[k].user) = ToString(userId)

\* toggleLike: the handle after the call and the value returned.  tPush is
\* the clock at the push (likedAt defaults to Date.now).  No save is issued.
toggleLike(a, userId, tPush) ==
  LET existingLikeIndex ==
        FindIndex([k \in 1..Len(a.likes) |->
                     ToString(a.likes[k].user) = ToString(userId)])
  IN IF existingLikeIndex > 0
     THEN LET a1 == [a EXCEPT !.likes = Splice(@, existingLikeIndex), !.modified = TRUE]
          IN [doc |-> a1, result |-> [action |-> "unliked", likeCount |-> likeCount(a1)]]
     ELSE LET a1 == [a EXCEPT !.likes = Append(@, [user |-> userId, likedAt |-> tPush]),
                              !.modified = TRUE]
          IN [doc |-> a1, result |-> [action |-> "liked", likeCount |-> likeCount(a1)]]

\* Body of addReply up to the save: the content goes through the trim setter,
\* createdAt defaults to Date.now at the push.
AddReplyMutate(a, userId, content, tPush) ==
  [a EXCEPT !.replies = Append(@, [user |-> userId, content |-> Trim(content),
                                   createdAt |-> tPush]),
            !.modified = TRUE]

\* Variant: the flag is flipped instead of set.
SoftDeleteMutate_Toggles(a) ==
  [a EXCEPT !.isDeleted = ~@, !.modified = TRUE]

\* Body of softDelete up to the save; assigning an equal value does not
\* mark the path modified.
SoftDeleteMutate(a) ==
  [a EXCEPT !.isDeleted = TRUE, !.modified = (@ \/ ~a.isDeleted)]

\* Validation run by save(): every reply's content is required (non-empty).
AnnValid(a) == \A k \in 1..Len(a.replies) : a.replies[k].content # <<>>

\* pre('save') hook: a modified document that is not new gets lastModified.
PreSave(a, t) == IF a.modified THEN [a EXCEPT !.lastModified = t] ELSE a

\* The annotations collection as stored.
Collection == {dbAnn}

\* Statics: the documents each query matches in the store (ordering of the
\* result is not represented).
findUserAnnotations(userId, bookId) ==
  {d \in Collection : /\ d.user = userId
                      /\ d.book = bookId
                      /\ d.isDeleted = FALSE}

findPublicAnnotations(bookId) ==
  {d \in Collection : /\ d.book = bookId
                      /\ d.isPrivate = FALSE
                      /\ d.isDeleted = FALSE}

findByType(userId, bookId, type) ==
  {d \in Collection : /\ d.user = userId
                      /\ d.book = bookId
                      /\ d.type = type
                      /\ d.isDeleted = FALSE}

searchAnnotations(userId, searchQuery) ==
  {d \in Collection : /\ d.user = userId
                      /\ d.isDeleted = FALSE
                      /\ \/ RegexMatch(d.selectedText, searchQuery)
                         \/ RegexMatch(d.userNote, searchQuery)
                         \/ \E k \in 1..Len(d.tags) : RegexMatch(d.tags[k], searchQuery)}

\* this.save() on the annotation handle a: validation, the pre-save hook,
\* then one write of the handle to the store.
AnnSave(op, userId, a, t) ==
  IF AnnValid(a)
  THEN LET saved == [PreSave(a, t) EXCEPT !.modified = FALSE]
       IN /\ ann' = saved
          /\ dbAnn' = saved
          /\ now' = (IF a.modified THEN t ELSE now)
          /\ last' = Outcome(op, userId, FALSE, 1, <<>>)
          /\ softDeleted' = (softDeleted \/ op = "softDelete")
  ELSE /\ ann' = a
       /\ last' = Outcome(op, userId, TRUE, 0, <<>>)
       /\ UNCHANGED <<dbAnn, now, softDeleted>>

\* annotation.toggleLike(userId)
ToggleLike(userId) ==
  \E tPush \in (IF isLikedBy(ann, userId) THEN {now} ELSE ReadClock(now)) :
    LET r == toggleLike(ann, userId, tPush)
    IN /\ ann' = r.doc
       /\ now' = (IF r.result.action = "liked" THEN tPush ELSE now)
       /\ last' = Outcome("toggleLike", userId, FALSE, 0, r.result)
       /\ UNCHANGED <<dbAnn, softDeleted, bookVars, client>>

\* annotation.addReply(userId, content)
AddReply(userId, content) ==
  /\ Len(ann.replies) < MaxReplies
  /\ \E tPush \in ReadClock(now) : \E tSave \in ReadClock(tPush) :
       AnnSave("addReply", userId, AddReplyMutate(ann, userId, content, tPush), tSave)
  /\ UNCHANGED <<bookVars, client>>

\* annotation.softDelete()
SoftDelete ==
  /\ \E tSave \in (IF SoftDeleteMutate(ann).modified THEN ReadClock(now) ELSE {now}) :
       AnnSave("softDelete", 0, SoftDeleteMutate(ann), tSave)
  /\ UNCHANGED <<bookVars, client>>

(* Ledger records a stored book may hold: schema-valid statuses, a due     *)
(* date 14 days after the borrow date, a return date iff returned.         *)
InitRecords ==
  {[user |-> u, borrowDate |-> 0, returnDate |-> (IF s = "returned" THEN 0 ELSE NoDate),
    dueDate |-> AddDays(0, BorrowPeriodDays), status |-> s] :
     u \in Users, s \in BorrowStatuses}

\* Any book the schema validation accepts.
StoredBooks ==
  [availability : Availabilities,
   totalCopies : 0..MaxCopies,
   availableCopies : 0..MaxCopies,
   borrowHistory : {<<>>} \cup {<<r>> : r \in InitRecords}]

\* A request that holds no document.
Idle == [pc |-> "idle", user |-> 0, snap |-> <<>>, doc |-> <<>>]

\* A book as the schema defaults create it.
DefaultBook ==
  [availability |-> "available", totalCopies |-> 1, availableCopies |-> 1,
   borrowHistory |-> <<>>]

ReplyContents == {<<>>, <<" ", "b">>}
ReplyAuthors == {1}
SearchQueries == {<<"a">>, <<"a", "B">>}

\* An annotation as created, with the defaults for likes, replies and
\* isDeleted.  It is created public (isPrivate: false): every query then
\* matches it for some argument, while a private one is left out of
\* findPublicAnnotations whether deleted or not.
NewAnnotations ==
  [user : {1}, book : {1}, type : {"highlight"}, isPrivate : {FALSE},
   isDeleted : {FALSE}, selectedText : {<<"A", "b">>}, userNote : {<<>>},
   tags : {<< <<"b", "a">> >>}, likes : {<<>>}, replies : {<<>>},
   lastModified : {0}, modified : {FALSE}]

DefaultAnnotation ==
  [user |-> 1, book |-> 1, type |-> "highlight", isPrivate |-> TRUE,
   isDeleted |-> FALSE, selectedText |-> <<>>, userNote |-> <<>>, tags |-> <<>>,
   likes |-> <<>>, replies |-> <<>>, lastModified |-> 0, modified |-> FALSE]

InitBook ==
  /\ book \in StoredBooks
  /\ dbBook = book
  /\ ann = DefaultAnnotation
  /\ dbAnn = ann
  /\ softDeleted = FALSE
  /\ client = [c \in Clients |-> Idle]
  /\ now = 0
  /\ last = NoOp

NextBook == \E u \in Users : BorrowBook(u) \/ ReturnBook(u)

SpecBook == InitBook /\ [][NextBook]_vars

\* Books as the catalogue creates them: the default availability, an empty
\* ledger, and copy counters with availableCopies <= totalCopies.
NewBooks ==
  {b \in StoredBooks : /\ b.availability = "available"
                       /\ b.borrowHistory = <<>>
                       /\ b.availableCopies <= b.totalCopies}

InitFresh ==
  /\ book \in NewBooks
  /\ dbBook = book
  /\ ann = DefaultAnnotation
  /\ dbAnn = ann
  /\ softDeleted = FALSE
  /\ client = [c \in Clients |-> Idle]
  /\ now = 0
  /\ last = NoOp

SpecFresh == InitFresh /\ [][NextBook]_vars

\* New books whose copies are all on the shelf.
InitFullStock ==
  /\ InitFresh
  /\ book.availableCopies = book.totalCopies

SpecFullStock == InitFullStock /\ [][NextBook]_vars

(* Two requests on the same stored book.  Each request loads its own       *)
(* handle (Book.findById), calls borrowBook on it, and the write issued by *)
(* this.save() reaches the store afterwards.                               *)
Load(c) ==
  /\ client[c].pc = "idle"
  /\ \E u \in Users :
       client' = [client EXCEPT ![c] = [pc |-> "loaded", user |-> u,
                                        snap |-> dbBook, doc |-> dbBook]]
  /\ UNCHANGED <<bookVars, annVars, now, last>>

\* borrowBook on the request's handle, up to the call of save().
Borrow(c) ==
  /\ client[c].pc = "loaded"
  /\ IF ~isAvailable(client[c].doc)
     THEN /\ client' = [client EXCEPT ![c].pc = "failed"]
          /\ last' = Outcome("borrowBook", client[c].user, TRUE, 0, <<>>)
          /\ UNCHANGED now
     ELSE /\ Len(client[c].doc.borrowHistory) < MaxLedger
          /\ \E tNew \in ReadClock(now) : \E tPush \in ReadClock(tNew) :
               /\ client' = [client EXCEPT
                    ![c].doc = BorrowMutate(@, client[c].user, tNew, tPush),
                    ![c].pc = "saving"]
               /\ now' = tPush
          /\ last' = Outcome("borrowBook", client[c].user, FALSE, 1, <<>>)
  /\ UNCHANGED <<bookVars, annVars>>

\* The write issued by save() lands.  The counters and the status of the
\* handle overwrite the stored ones.  The pushed record reaches the store
\* either with the handle's whole ledger or appended to the stored ledger,
\* depending on how the write is encoded (whole array or push).
SaveDone(c) ==
  /\ client[c].pc = "saving"
  /\ \/ dbBook' = client[c].doc
     \/ dbBook' = [client[c].doc EXCEPT !.borrowHistory =
                     Append(dbBook.borrowHistory, @[Len(@)])]
  /\ client' = [client EXCEPT ![c].pc = "done"]
  /\ UNCHANGED <<book, annVars, now, last>>

InitRace == InitFresh

NextRace == \E c \in Clients : Load(c) \/ Borrow(c) \/ SaveDone(c)

SpecRace == InitRace /\ [][NextRace]_vars

InitAnn ==
  /\ book = DefaultBook
  /\ dbBook = book
  /\ ann \in NewAnnotations
  /\ dbAnn = ann
  /\ softDeleted = FALSE
  /\ client = [c \in Clients |-> Idle]
  /\ now = 0
  /\ last = NoOp

NextAnn ==
  \/ \E u \in Users : ToggleLike(u)
  \/ \E u \in ReplyAuthors : \E c \in ReplyContents : AddReply(u, c)
  \/ SoftDelete

SpecAnn == InitAnn /\ [][NextAnn]_vars

(* ------------------------------ properties ------------------------------ *)
\* The step just taken was a call of `op` that returned normally.
Returned(op) == last'.op = op /\ ~last'.threw

\* Positions of the ledger records of user u that are still out on loan.
OpenRecords(b, u) ==
  {i \in 1..Len(b.borrowHistory) :
     b.borrowHistory[i].user = u /\ b.borrowHistory[i].status = "borrowed"}

FirstOpenRecord(b, u) ==
  CHOOSE i \in OpenRecords(b, u) : \A j \in OpenRecords(b, u) : i <= j

\* C1: a successful borrowBook(userId) lowers availableCopies by exactly 1
\* and appends exactly one record to the ledger, earlier records untouched;
\* the new record has user userId, status 'borrowed' and a due date equal
\* to its borrow date plus 14 days.
C1_BorrowAppendsLoanDueIn14Days ==
  [][Returned("borrowBook") =>
       LET n == Len(book.borrowHistory)
           r == book'.borrowHistory[n + 1]
       IN /\ book'.availableCopies = book.availableCopies - 1
          /\ Len(book'.borrowHistory) = n + 1
          /\ SubSeq(book'.borrowHistory, 1, n) = book.borrowHistory
          /\ r.user = last'.user
          /\ r.status = "borrowed"
          /\ r.dueDate = r.borrowDate + BorrowPeriodDays * TicksPerDay]_vars

\* C2: borrowBook throws whenever availableCopies is 0 or availability is
\* not 'available', and then neither the handle nor the stored book changes
\* and no write is issued.
C2_BorrowRejectedLeavesBookUnchanged ==
  [][(last'.op = "borrowBook"
        /\ (book.availableCopies = 0 \/ book.availability # "available")) =>
       /\ last'.threw
       /\ last'.saves = 0
       /\ book' = book
       /\ dbBook' = dbBook]_vars

\* C2 witness: a borrow was refused on a book under maintenance that still
\* has copies on the shelf.
C2_Witness ==
  /\ last.op = "borrowBook"
  /\ last.threw
  /\ book.availability = "maintenance"
  /\ book.availableCopies > 0

\* C3: when the user has an open loan, returnBook(userId) succeeds; the
\* first open record of that user in ledger order, and no other record, gets
\* status 'returned' and a return date; availableCopies grows by exactly 1;
\* availability is 'available' iff the resulting availableCopies > 0.
C3_ReturnClosesFirstOpenLoan ==
  [][(last'.op = "returnBook"
        /\ (OpenRecords(book, last'.user) # {} \/ ~last'.threw)) =>
       /\ ~last'.threw
       /\ OpenRecords(book, last'.user) # {}
       /\ LET i == FirstOpenRecord(book, last'.user)
          IN /\ Len(book'.borrowHistory) = Len(book.borrowHistory)
             /\ book'.borrowHistory[i].status = "returned"
             /\ book'.borrowHistory[i].returnDate # NoDate
             /\ book'.borrowHistory[i].user = book.borrowHistory[i].user
             /\ book'.borrowHistory[i].borrowDate = book.borrowHistory[i].borrowDate
             /\ book'.borrowHistory[i].dueDate = book.borrowHistory[i].dueDate
             /\ \A j \in 1..Len(book.borrowHistory) :
                  j # i => book'.borrowHistory[j] = book.borrowHistory[j]
       /\ book'.availableCopies = book.availableCopies + 1
       /\ (book'.availability = "available" <=> book'.availableCopies > 0)]_vars

\* C3 witness: a return closed the earlier of two loans of the same user and
\* left the later one open.
C3_Witness ==
  /\ last.op = "returnBook"
  /\ ~last.threw
  /\ \E i, j \in 1..Len(book.borrowHistory) :
       /\ i < j
       /\ book.borrowHistory[i].user = last.user
       /\ book.borrowHistory[i].status = "returned"
       /\ book.borrowHistory[j].user = last.user
       /\ book.borrowHistory[j].status = "borrowed"

\* C4: returnBook(userId) throws whenever no ledger record has that user and
\* status 'borrowed', and then the counters, the availability and every
\* ledger record are unchanged, in the handle and in the store.
C4_ReturnWithoutLoanRejected ==
  [][(last'.op = "returnBook" /\ OpenRecords(book, last'.user) = {}) =>
       /\ last'.threw
       /\ last'.saves = 0
       /\ book' = book
       /\ dbBook' = dbBook]_vars

\* C4 witness: a return was refused for a user whose only record is overdue
\* while another user holds an open loan.
C4_Witness ==
  /\ last.op = "returnBook"
  /\ last.threw
  /\ \E i, j \in 1..Len(book.borrowHistory) :
       /\ book.borrowHistory[i].user = last.user
       /\ book.borrowHistory[i].status = "overdue"
       /\ book.borrowHistory[j].user # last.user
       /\ book.borrowHistory[j].status = "borrowed"

\* The users that appear among the likers.
Likers(a) == {a.likes[k].user : k \in 1..Len(a.likes)}

C6_AvailabilityTracksCopies ==
  /\ 0 <= book.availableCopies
  /\ book.availableCopies <= book.totalCopies
  /\ (book.availability = "borrowed" <=> book.availableCopies = 0)

\* C7: a borrow is decided on, and computed from, the copy the request read:
\* every granted borrow saw an available book with a copy left in its own
\* read and writes back that read's counter minus one, whatever the store
\* holds by then.
C7_BorrowActsOnItsOwnRead ==
  \A c \in Clients :
    client[c].pc \in {"saving", "done"} =>
      /\ client[c].snap.availability = "available"
      /\ client[c].snap.availableCopies > 0
      /\ client[c].doc.availableCopies = client[c].snap.availableCopies - 1
      /\ Len(client[c].doc.borrowHistory) = Len(client[c].snap.borrowHistory) + 1

\* C7 witness: with one copy available both requests were granted a loan
\* and the stored counter went down by one only.
C7_Witness ==
  /\ \A c \in Clients :
       /\ client[c].pc = "done"
       /\ client[c].snap.availableCopies = 1
       /\ client[c].snap.borrowHistory = <<>>
  /\ dbBook.availableCopies = 0

\* Every query for non-deleted annotations, with every argument.
NonDeletedResults ==
  UNION ({findUserAnnotations(u, b) : u \in Users, b \in BookIds}
         \cup {findPublicAnnotations(b) : b \in BookIds}
         \cup {findByType(u, b, t) : u \in Users, b \in BookIds, t \in AnnotationTypes}
         \cup {searchAnnotations(u, q) : u \in Users, q \in SearchQueries})

\* C8: once softDelete has succeeded the annotation stays deleted, in the
\* handle and in the store, and no non-deleted query returns it, whatever
\* toggleLike, addReply and softDelete calls follow.
C8_SoftDeletedStaysHidden ==
  softDeleted =>
    /\ ann.isDeleted
    /\ dbAnn.isDeleted
    /\ dbAnn \notin NonDeletedResults

\* C8 witness: a reply was added after the soft delete to a public
\* annotation whose owner, book, type and text the queries ask for.
C8_Witness ==
  /\ softDeleted
  /\ last.op = "addReply"
  /\ ~last.threw
  /\ ~dbAnn.isPrivate
  /\ dbAnn.user \in Users
  /\ dbAnn.book \in BookIds
  /\ \E q \in SearchQueries : RegexMatch(dbAnn.selectedText, q)

\* C9: each of borrow, return, toggle-like, add-reply and soft-delete that
\* succeeds has issued exactly one save, and the stored record equals the
\* mutated handle.
C9_EveryOperationWritesBackOnce ==
  /\ (last.op \in {"borrowBook", "returnBook"} /\ ~last.threw) =>
       (last.saves = 1 /\ dbBook = book)
  /\ (last.op \in {"toggleLike", "addReply", "softDelete"} /\ ~last.threw) =>
       (last.saves = 1 /\ dbAnn = ann)

\* C10: on a book that starts with an empty ledger and all copies on the
\* shelf, the number of open loans in the ledger equals
\* totalCopies - availableCopies, so 0 <= availableCopies <= totalCopies.
C10_OpenLoansMatchMissingCopies ==
  /\ Cardinality({i \in 1..Len(book.borrowHistory) :
                    book.borrowHistory[i].status = "borrowed"})
       = book.totalCopies - book.availableCopies
  /\ book.availableCopies >= 0
  /\ book.availableCopies <= book.totalCopies

\* C10 witness: after a return one loan is still open and one copy is back.
C10_Witness ==
  /\ last.op = "returnBook"
  /\ ~last.threw
  /\ book.availableCopies < book.totalCopies
  /\ book.availableCopies > 0

====
